---- MODULE Spec2Model ----
(***************************************************************************)
(* AyushBridge: the NAMASTE <-> ICD-11 mapping engine                      *)
(* (backend/mapping_engine.py), the FHIR resource builder                  *)
(* (fhir_resources.py) and the handlers of /translate, /search,            *)
(* /statistics, /ConceptMap/{id} and /analyze (backend/main.py).           *)
(*                                                                         *)
(* Python values are represented as follows.                               *)
(*   str            a TLA+ string; "" is the empty (falsy) string          *)
(*   None           NoneStr where a str is optional, None where an object  *)
(*                  or a list is optional                                  *)
(*   dict           a sequence of [k, v] entries in insertion order        *)
(*                  (assigning an existing key keeps the key's position)   *)
(*   list           a sequence                                             *)
(*   a JSON object  a record; the value Missing marks an absent key        *)
(***************************************************************************)
EXTENDS Integers, Sequences, FiniteSets, TLC

VARIABLES
    fileExists,      \* Path(self.mappings_file).exists()
    dataset,         \* the parsed JSON document of the mappings file
    engineInstance,  \* mapping_engine._mapping_engine_instance
    phase,           \* lifespan: "starting", "serving" or "aborted"
    request,         \* the TranslateRequest being handled
    pc,              \* position of the /translate handler
    primary,         \* the handler's local primary_mapping
    allMappings,     \* the handler's local all_mappings
    sdk,             \* what model.generate_content did for this request
    aiCalls,         \* calls of generate_mapping_explanation for this request
    response,        \* the HTTP response of the handled request
    args,            \* arguments of a direct build_translate_response call
    built,           \* what that call returned
    call,            \* the GET request being handled (search, statistics,
                     \* ConceptMap)
    reply,           \* the HTTP response of that GET request
    constructions,   \* how many times MappingEngine() has been called
    instanceId,      \* which of these calls made the published instance
    received,        \* what get_mapping_engine gave each of its callers
    loading          \* the MappingEngine whose __init__ is running

vars == <<fileExists, dataset, engineInstance, phase, request, pc, primary,
          allMappings, sdk, aiCalls, response, args, built, call, reply,
          constructions, instanceId, received, loading>>

-----------------------------------------------------------------------------
(* Python's None *)

None == [none |-> TRUE]
NoneStr == "<None>"
Missing == "<missing>"

\* bool(s) of an Optional[str]
Truthy(s) == s # NoneStr /\ s # ""

-----------------------------------------------------------------------------
(* Bounds *)

MaxRecords == 2
MaxCallers == 2

-----------------------------------------------------------------------------
(* main.py: the declared ranges of the parameters of GET /search *)

MinQueryLength == 2
LimitMin == 1
LimitMax == 100
DefaultLimit == 10

-----------------------------------------------------------------------------
(* models.py *)

EquivalenceEnum ==
    {"relatedto", "equivalent", "equal", "wider", "subsumes", "narrower",
     "specializes", "inexact", "unmatched", "disjoint"}

NAMASTE_SYSTEM == "http://namaste.gov.in/fhir/CodeSystem/namaste"
ICD11_SYSTEM == "http://id.who.int/icd11/mms"
OTHER_SYSTEM == "http://snomed.info/sct"

-----------------------------------------------------------------------------
(* dict helpers *)

RECURSIVE DictIndex(_, _, _)
DictIndex(d, k, i) ==
    IF i > Len(d) THEN 0
    ELSE IF d[i].k = k THEN i
    ELSE DictIndex(d, k, i + 1)

DictHas(d, k) == DictIndex(d, k, 1) # 0

\* d.get(k, default)
DictGet(d, k, default) ==
    LET i == DictIndex(d, k, 1) IN IF i = 0 THEN default ELSE d[i].v

\* a dict that keeps the first value assigned to a key
DictSetFirstWins(d, k, v) ==
    IF DictIndex(d, k, 1) = 0 THEN Append(d, [k |-> k, v |-> v]) ELSE d

\* d[k] = v
DictSet(d, k, v) ==
    LET i == DictIndex(d, k, 1) IN
    IF i = 0 THEN Append(d, [k |-> k, v |-> v])
    ELSE [d EXCEPT ![i] = [k |-> k, v |-> v]]

-----------------------------------------------------------------------------
(* Inputs: the records a mappings file may hold *)

Raw(nc, nd, ns, ic, id, eq, notes) ==
    [namaste_code |-> nc, namaste_display |-> nd, namaste_system |-> ns,
     icd11_code |-> ic, icd11_display |-> id, equivalence |-> eq,
     notes |-> notes]

RecordPool ==
    { Raw("NAM-1001", "Pandu", "Ayurveda", "DB64.0",
          "Iron deficiency anaemia", "equivalent", "Anaemia in Ayurveda"),
      Raw("NAM-1002", "Veluppu Noi", "Siddha", "DB64.0",
          "Iron deficiency anaemia", "wider", Missing),
      Raw("NAM-1001", "Pandu Roga", "Unani", "5A11",
          "Type 2 diabetes mellitus", "inexact", Missing),
      Raw("", "Unnamed", "Ayurveda", "DB64.0",
          "Iron deficiency anaemia", "narrower", Missing),
      Raw("NAM-1003", "Madhumeha", "Ayurveda", "",
          "", "relatedto", "DIABETES"),
      Raw("NAM-1004", "Ziabetus", "Unani", "5A11",
          "Type 2 diabetes mellitus", "approximate", Missing),
      Raw("NAM-1005", "Neerizhivu", "Siddha", Missing,
          "Type 2 diabetes mellitus", "equal", Missing),
      Raw("NAM-1006", "Diabetes", "Homeopathy", "5A11",
          "Type 2 diabetes mellitus", "equivalent", Missing),
      Raw("NAM-1007", "", "Siddha", "5A11", "", "equal", "") }

RECURSIVE SeqsUpTo(_, _)
SeqsUpTo(S, n) ==
    IF n = 0 THEN {<<>>}
    ELSE LET shorter == SeqsUpTo(S, n - 1) IN
         shorter \cup {Append(q, x) : q \in shorter, x \in S}

Datasets ==
    {[metadata |-> "version 1.0", mappings |-> ms] :
        ms \in SeqsUpTo(RecordPool, MaxRecords)}

-----------------------------------------------------------------------------
(* Python str: the characters of the strings that are searched or searched
   for; the empty string has none *)

Chars(s) ==
    CASE s = "Pandu" -> <<"P", "a", "n", "d", "u">>
      [] s = "Veluppu Noi" -> <<"V", "e", "l", "u", "p", "p", "u", " ", "N", "o", "i">>
      [] s = "Pandu Roga" -> <<"P", "a", "n", "d", "u", " ", "R", "o", "g", "a">>
      [] s = "Unnamed" -> <<"U", "n", "n", "a", "m", "e", "d">>
      [] s = "Madhumeha" -> <<"M", "a", "d", "h", "u", "m", "e", "h", "a">>
      [] s = "Ziabetus" -> <<"Z", "i", "a", "b", "e", "t", "u", "s">>
      [] s = "Neerizhivu" -> <<"N", "e", "e", "r", "i", "z", "h", "i", "v", "u">>
      [] s = "Diabetes" -> <<"D", "i", "a", "b", "e", "t", "e", "s">>
      [] s = "Iron deficiency anaemia" -> <<"I", "r", "o", "n", " ", "d", "e", "f", "i", "c", "i", "e", "n", "c", "y", " ", "a", "n", "a", "e", "m", "i", "a">>
      [] s = "Type 2 diabetes mellitus" -> <<"T", "y", "p", "e", " ", "2", " ", "d", "i", "a", "b", "e", "t", "e", "s", " ", "m", "e", "l", "l", "i", "t", "u", "s">>
      [] s = "Anaemia in Ayurveda" -> <<"A", "n", "a", "e", "m", "i", "a", " ", "i", "n", " ", "A", "y", "u", "r", "v", "e", "d", "a">>
      [] s = "DIABETES" -> <<"D", "I", "A", "B", "E", "T", "E", "S">>
      [] s = "a" -> <<"a">>
      [] s = "an" -> <<"a", "n">>
      [] s = "diabetes" -> <<"d", "i", "a", "b", "e", "t", "e", "s">>
      [] s = "PANDU" -> <<"P", "A", "N", "D", "U">>
      [] s = "zz" -> <<"z", "z">>
      [] s = "" -> <<>>

\* str.lower(), character by character
LowerChar(c) ==
    CASE c = "A" -> "a"
      [] c = "B" -> "b"
      [] c = "C" -> "c"
      [] c = "D" -> "d"
      [] c = "E" -> "e"
      [] c = "F" -> "f"
      [] c = "G" -> "g"
      [] c = "H" -> "h"
      [] c = "I" -> "i"
      [] c = "J" -> "j"
      [] c = "K" -> "k"
      [] c = "L" -> "l"
      [] c = "M" -> "m"
      [] c = "N" -> "n"
      [] c = "O" -> "o"
      [] c = "P" -> "p"
      [] c = "Q" -> "q"
      [] c = "R" -> "r"
      [] c = "S" -> "s"
      [] c = "T" -> "t"
      [] c = "U" -> "u"
      [] c = "V" -> "v"
      [] c = "W" -> "w"
      [] c = "X" -> "x"
      [] c = "Y" -> "y"
      [] c = "Z" -> "z"
      [] OTHER -> c

StrLower(cs) == [i \in 1..Len(cs) |-> LowerChar(cs[i])]

\* needle in hay
Contains(needle, hay) ==
    \E i \in 0..(Len(hay) - Len(needle)) :
        \A k \in 1..Len(needle) : hay[i + k] = needle[k]

-----------------------------------------------------------------------------
(* mapping_engine.py *)

RequiredFields ==
    {"namaste_code", "namaste_display", "namaste_system", "icd11_code",
     "icd11_display", "equivalence"}

\* CodeMapping.__init__ raises KeyError on an absent required key and
\* ValueError when EquivalenceEnum(...) rejects the value
CodeMappingRaises(mapping_data) ==
    \/ \E f \in RequiredFields : mapping_data[f] = Missing
    \/ mapping_data.equivalence \notin EquivalenceEnum

CodeMapping(mapping_data) ==
    [mapping_data EXCEPT
        !.notes = IF mapping_data.notes = Missing THEN NoneStr
                  ELSE mapping_data.notes]

\* a loop that leaves out a record CodeMapping rejects and goes on
RECURSIVE LoadLoopSkipping(_, _, _)
LoadLoopSkipping(self, ms, i) ==
    IF i > Len(ms) THEN [raised |-> FALSE, self |-> self]
    ELSE IF CodeMappingRaises(ms[i]) THEN LoadLoopSkipping(self, ms, i + 1)
    ELSE
        LET mapping == CodeMapping(ms[i])
            fwd == DictSet(self.mappings, mapping.namaste_code, mapping)
            rev == DictSet(self.reverse_mappings, mapping.icd11_code,
                           Append(DictGet(self.reverse_mappings,
                                          mapping.icd11_code, <<>>), mapping))
        IN LoadLoopSkipping(
                [self EXCEPT !.mappings = fwd, !.reverse_mappings = rev],
                ms, i + 1)

\* a loop that puts each record at the head of its reverse list
RECURSIVE LoadLoopPrepending(_, _, _)
LoadLoopPrepending(self, ms, i) ==
    IF i > Len(ms) THEN [raised |-> FALSE, self |-> self]
    ELSE IF CodeMappingRaises(ms[i]) THEN [raised |-> TRUE, self |-> self]
    ELSE
        LET mapping == CodeMapping(ms[i])
            fwd == DictSet(self.mappings, mapping.namaste_code, mapping)
            rev == DictSet(self.reverse_mappings, mapping.icd11_code,
                           <<mapping>> \o DictGet(self.reverse_mappings,
                                                  mapping.icd11_code, <<>>))
        IN LoadLoopPrepending(
                [self EXCEPT !.mappings = fwd, !.reverse_mappings = rev],
                ms, i + 1)

\* the for loop of _load_mappings from record i on; self is the engine
RECURSIVE LoadLoop(_, _, _)
LoadLoop(self, ms, i) ==
    IF i > Len(ms) THEN [raised |-> FALSE, self |-> self]
    ELSE IF CodeMappingRaises(ms[i]) THEN [raised |-> TRUE, self |-> self]
    ELSE
        LET mapping == CodeMapping(ms[i])
            fwd == DictSet(self.mappings, mapping.namaste_code, mapping)
            rev0 == IF ~DictHas(self.reverse_mappings, mapping.icd11_code)
                    THEN DictSet(self.reverse_mappings, mapping.icd11_code, <<>>)
                    ELSE self.reverse_mappings
            rev == DictSet(rev0, mapping.icd11_code,
                           Append(DictGet(rev0, mapping.icd11_code, <<>>), mapping))
        IN LoadLoop([self EXCEPT !.mappings = fwd, !.reverse_mappings = rev],
                    ms, i + 1)

\* MappingEngine.__init__ followed by _load_mappings
\* metadata is kept as the text of the JSON object
NewEngine == [mappings |-> <<>>, reverse_mappings |-> <<>>, metadata |-> "{}"]

MappingEngineLoad(exists, data) ==
    IF ~exists THEN [raised |-> FALSE, self |-> NewEngine]
    ELSE LoadLoop([NewEngine EXCEPT !.metadata = data.metadata],
                  data.mappings, 1)

translate_namaste_to_icd11(self, namaste_code) ==
    LET mapping == DictGet(self.mappings, namaste_code, None) IN
    IF mapping # None THEN <<TRUE, mapping>> ELSE <<FALSE, None>>

\* a reverse lookup that returns the first match alone
translate_icd11_to_namaste_first(self, icd11_code) ==
    LET mappings == DictGet(self.reverse_mappings, icd11_code, <<>>) IN
    IF mappings # <<>> THEN <<TRUE, <<mappings[1]>>>> ELSE <<FALSE, <<>>>>

translate_icd11_to_namaste(self, icd11_code) ==
    LET mappings == DictGet(self.reverse_mappings, icd11_code, <<>>) IN
    IF mappings # <<>> THEN <<TRUE, mappings>> ELSE <<FALSE, <<>>>>

\* translate_code taking the last reverse match as the primary
translate_code_last(self, code, source_system, target_system) ==
    IF source_system = NAMASTE_SYSTEM /\ target_system = ICD11_SYSTEM THEN
        LET r == translate_namaste_to_icd11(self, code) IN
        <<r[1], r[2], IF r[2] # None THEN <<r[2]>> ELSE <<>>>>
    ELSE IF source_system = ICD11_SYSTEM /\ target_system = NAMASTE_SYSTEM THEN
        LET r == translate_icd11_to_namaste(self, code) IN
        <<r[1], IF r[2] # <<>> THEN r[2][Len(r[2])] ELSE None, r[2]>>
    ELSE <<FALSE, None, <<>>>>

\* translate_code choosing the direction by the source system alone
translate_code_by_source(self, code, source_system, target_system) ==
    IF source_system = NAMASTE_SYSTEM THEN
        LET r == translate_namaste_to_icd11(self, code) IN
        <<r[1], r[2], IF r[2] # None THEN <<r[2]>> ELSE <<>>>>
    ELSE IF source_system = ICD11_SYSTEM THEN
        LET r == translate_icd11_to_namaste(self, code) IN
        <<r[1], IF r[2] # <<>> THEN r[2][1] ELSE None, r[2]>>
    ELSE <<FALSE, None, <<>>>>

\* a resolver whose reverse list comes back in the opposite order
translate_code_list_reversed(self, code, source_system, target_system) ==
    IF source_system = NAMASTE_SYSTEM /\ target_system = ICD11_SYSTEM THEN
        LET r == translate_namaste_to_icd11(self, code) IN
        <<r[1], r[2], IF r[2] # None THEN <<r[2]>> ELSE <<>>>>
    ELSE IF source_system = ICD11_SYSTEM /\ target_system = NAMASTE_SYSTEM THEN
        LET r == translate_icd11_to_namaste(self, code)
            l == [i \in 1..Len(r[2]) |-> r[2][Len(r[2]) + 1 - i]]
        IN <<r[1], IF l # <<>> THEN l[1] ELSE None, l>>
    ELSE <<FALSE, None, <<>>>>

\* returns <<success, primary_mapping, all_mappings>>
translate_code(self, code, source_system, target_system) ==
    IF source_system = NAMASTE_SYSTEM /\ target_system = ICD11_SYSTEM THEN
        LET r == translate_namaste_to_icd11(self, code) IN
        <<r[1], r[2], IF r[2] # None THEN <<r[2]>> ELSE <<>>>>
    ELSE IF source_system = ICD11_SYSTEM /\ target_system = NAMASTE_SYSTEM THEN
        LET r == translate_icd11_to_namaste(self, code) IN
        <<r[1], IF r[2] # <<>> THEN r[2][1] ELSE None, r[2]>>
    ELSE <<FALSE, None, <<>>>>

\* list(d.values()), in the dict's iteration order
DictValues(d) == [i \in 1..Len(d) |-> d[i].v]

\* the default of search_fields
SearchFields == <<"namaste_display", "icd11_display", "notes">>

\* the inner loop of search_mappings: some field of the mapping is truthy
\* and holds query_lower
FieldMatches(mapping, query_lower, search_fields) ==
    \E n \in 1..Len(search_fields) :
        LET field_value == mapping[search_fields[n]] IN
        /\ Truthy(field_value)
        /\ Contains(query_lower, StrLower(Chars(field_value)))

\* a search that compares the query as typed
search_mappings_as_typed(self, query) ==
    LET query_lower == Chars(query)
        Hit(mapping) == FieldMatches(mapping, query_lower, SearchFields)
    IN SelectSeq(DictValues(self.mappings), Hit)

\* a search over the two display fields alone
search_mappings_displays(self, query) ==
    LET query_lower == StrLower(Chars(query))
        Hit(mapping) == FieldMatches(mapping, query_lower,
                                     <<"namaste_display", "icd11_display">>)
    IN SelectSeq(DictValues(self.mappings), Hit)

search_mappings(self, query) ==
    LET query_lower == StrLower(Chars(query))
        Hit(mapping) == FieldMatches(mapping, query_lower, SearchFields)
    IN SelectSeq(DictValues(self.mappings), Hit)

\* CodeMapping.to_dict
to_dict(mapping) ==
    [namaste_code |-> mapping.namaste_code,
     namaste_display |-> mapping.namaste_display,
     namaste_system |-> mapping.namaste_system,
     icd11_code |-> mapping.icd11_code,
     icd11_display |-> mapping.icd11_display,
     equivalence |-> mapping.equivalence,
     notes |-> mapping.notes]

\* the loop of get_statistics over the values from i on; acc holds
\* system_counts and equivalence_counts
RECURSIVE StatisticsLoop(_, _, _)
StatisticsLoop(values, i, acc) ==
    IF i > Len(values) THEN acc
    ELSE
        LET system == values[i].namaste_system
            equiv == values[i].equivalence
        IN StatisticsLoop(values, i + 1,
            [system_counts |->
                DictSet(acc.system_counts, system,
                        DictGet(acc.system_counts, system, 0) + 1),
             equivalence_counts |->
                DictSet(acc.equivalence_counts, equiv,
                        DictGet(acc.equivalence_counts, equiv, 0) + 1)])

RECURSIVE SumLen(_, _)
SumLen(lists, i) ==
    IF i > Len(lists) THEN 0 ELSE Len(lists[i]) + SumLen(lists, i + 1)

\* statistics whose total counts every record that was loaded
get_statistics_loaded(self) ==
    LET acc == StatisticsLoop(DictValues(self.mappings), 1,
                   [system_counts |-> <<>>, equivalence_counts |-> <<>>])
    IN [total_mappings |-> SumLen(DictValues(self.reverse_mappings), 1),
        by_traditional_system |-> acc.system_counts,
        by_equivalence |-> acc.equivalence_counts,
        reverse_mappings |-> Len(self.reverse_mappings),
        metadata |-> self.metadata]

\* statistics whose reverse count is the number of records in the reverse
\* lists, not the number of lists
get_statistics_reverse_records(self) ==
    LET acc == StatisticsLoop(DictValues(self.mappings), 1,
                   [system_counts |-> <<>>, equivalence_counts |-> <<>>])
    IN [total_mappings |-> Len(self.mappings),
        by_traditional_system |-> acc.system_counts,
        by_equivalence |-> acc.equivalence_counts,
        reverse_mappings |-> SumLen(DictValues(self.reverse_mappings), 1),
        metadata |-> self.metadata]

get_statistics(self) ==
    LET acc == StatisticsLoop(DictValues(self.mappings), 1,
                   [system_counts |-> <<>>, equivalence_counts |-> <<>>])
    IN [total_mappings |-> Len(self.mappings),
        by_traditional_system |-> acc.system_counts,
        by_equivalence |-> acc.equivalence_counts,
        reverse_mappings |-> Len(self.reverse_mappings),
        metadata |-> self.metadata]

\* the loop over one reverse list (lines 248-254)
ReverseTargets(mappings) ==
    [j \in 1..Len(mappings) |->
        [code |-> mappings[j].namaste_code,
         display |-> mappings[j].namaste_display,
         equivalence |-> mappings[j].equivalence]]

\* the reverse branch with the display of the last record of each list
ReverseGroupsLastDisplay(self) ==
    [i \in 1..Len(self.reverse_mappings) |->
        LET icd11_code == self.reverse_mappings[i].k
            mappings == self.reverse_mappings[i].v
        IN [source_code |-> icd11_code,
            source_display |-> mappings[Len(mappings)].icd11_display,
            targets |-> ReverseTargets(mappings)]]

\* lines 242-262; the keys of a dict are distinct, so the test of
\* processed_icd11_codes passes for every item
ReverseGroups(self) ==
    [i \in 1..Len(self.reverse_mappings) |->
        LET icd11_code == self.reverse_mappings[i].k
            mappings == self.reverse_mappings[i].v
        IN [source_code |-> icd11_code,
            source_display |-> mappings[1].icd11_display,
            targets |-> ReverseTargets(mappings)]]

\* the forward branch with the equivalence left at the builder's default
ForwardGroupsDefaultEquivalence(self) ==
    LET values == DictValues(self.mappings) IN
    [i \in 1..Len(values) |->
        [source_code |-> values[i].namaste_code,
         source_display |-> values[i].namaste_display,
         targets |-> <<[code |-> values[i].icd11_code,
                        display |-> values[i].icd11_display,
                        equivalence |-> "equivalent"]>>]]

\* lines 229-240
ForwardGroups(self) ==
    LET values == DictValues(self.mappings) IN
    [i \in 1..Len(values) |->
        [source_code |-> values[i].namaste_code,
         source_display |-> values[i].namaste_display,
         targets |-> <<[code |-> values[i].icd11_code,
                        display |-> values[i].icd11_display,
                        equivalence |-> values[i].equivalence]>>]]

get_mappings_for_concept_map(self, source_system, target_system) ==
    IF source_system = NAMASTE_SYSTEM /\ target_system = ICD11_SYSTEM
    THEN ForwardGroups(self)
    ELSE IF source_system = ICD11_SYSTEM /\ target_system = NAMASTE_SYSTEM
    THEN ReverseGroups(self)
    ELSE <<>>

-----------------------------------------------------------------------------
(* fhir_resources.py *)

ConceptMapTarget(code, display, equivalence) ==
    [code |-> code, display |-> display, equivalence |-> equivalence]

ConceptMapElement(code, display, target) ==
    [code |-> code, display |-> display, target |-> target]

ConceptMapGroup(source, target, element) ==
    [source |-> source, target |-> target, element |-> element]

ConceptMapResource(id, url, name, title, description, group) ==
    [resourceType |-> "ConceptMap", id |-> id, url |-> url, name |-> name,
     title |-> title, status |-> "active", description |-> description,
     group |-> group]

ConceptMapBase == "http://ayushbridge.org/fhir/ConceptMap/"

\* the elements of build_concept_map (lines 71-86)
ConceptMapElements(mappings) ==
    [i \in 1..Len(mappings) |->
        ConceptMapElement(
            mappings[i].source_code,
            mappings[i].source_display,
            [j \in 1..Len(mappings[i].targets) |->
                ConceptMapTarget(mappings[i].targets[j].code,
                                 mappings[i].targets[j].display,
                                 mappings[i].targets[j].equivalence)])]

\* a builder whose canonical URL names the map's name, not its identifier
build_concept_map_url_of_name(map_id, name, title, source_system, target_system, mappings, description) ==
    ConceptMapResource(map_id, ConceptMapBase \o name, name, title, description,
        <<ConceptMapGroup(source_system, target_system,
                          ConceptMapElements(mappings))>>)

build_concept_map(map_id, name, title, source_system, target_system, mappings, description) ==
    ConceptMapResource(map_id, ConceptMapBase \o map_id, name, title, description,
        <<ConceptMapGroup(source_system, target_system,
                          ConceptMapElements(mappings))>>)

PREDEFINED_CONCEPT_MAPS ==
    [id \in {"namaste-to-icd11", "icd11-to-namaste"} |->
        IF id = "namaste-to-icd11"
        THEN [name |-> "NAMASTEtoICD11",
              title |-> "Mapping from NAMASTE to ICD-11",
              description |-> "Official mapping between NAMASTE codes for traditional Indian medicine and ICD-11 codes",
              source_system |-> NAMASTE_SYSTEM,
              target_system |-> ICD11_SYSTEM]
        ELSE [name |-> "ICD11toNAMASTE",
              title |-> "Mapping from ICD-11 to NAMASTE",
              description |-> "Reverse mapping between ICD-11 codes and NAMASTE codes for traditional Indian medicine",
              source_system |-> ICD11_SYSTEM,
              target_system |-> NAMASTE_SYSTEM]]

Parameter(name, valueBoolean, valueString, part) ==
    [name |-> name, valueBoolean |-> valueBoolean,
     valueString |-> valueString, part |-> part]

ParameterPart(name, valueCode, valueCoding) ==
    [name |-> name, valueCode |-> valueCode, valueCoding |-> valueCoding]

Coding(system, code, display) ==
    [system |-> system, code |-> code, display |-> display]

ParametersResource(parameter) ==
    [resourceType |-> "Parameters", parameter |-> parameter]

build_translate_response(result, source_code, target_code, target_display, target_system, equivalence, ai_explanation) ==
    LET parameters0 == <<Parameter("result", result, NoneStr, None)>>
        match_parts ==
            <<ParameterPart("equivalence", equivalence, None),
              ParameterPart("concept", NoneStr,
                            Coding(target_system, target_code, target_display))>>
        parameters1 ==
            IF result /\ Truthy(target_code) /\ Truthy(target_system)
            THEN Append(parameters0, Parameter("match", None, NoneStr, match_parts))
            ELSE parameters0
        parameters2 ==
            IF Truthy(ai_explanation)
            THEN Append(parameters1,
                        Parameter("ai_explanation", None, ai_explanation, None))
            ELSE parameters1
    IN ParametersResource(parameters2)

-----------------------------------------------------------------------------
(* ai_service.py *)

SUPPORTED_LANGUAGES ==
    {"hi", "ta", "te", "bn", "gu", "kn", "ml", "mr", "pa", "or", "as", "sa",
     "ur", "ne", "si", "en", "es", "fr", "de", "it", "pt", "ru", "zh", "ja",
     "ar", "ko", "tr", "nl", "sv", "no", "da", "fi", "pl", "cs", "hu", "ro",
     "bg", "hr", "sk", "sl", "et", "lv", "lt", "he", "th", "vi", "id", "ms",
     "tl", "my", "km", "lo", "ka", "am", "sw", "zu", "af", "is", "mt", "cy"}

\* str.lower() on the language codes the requests carry
Lower(s) ==
    CASE s = "HI" -> "hi"
      [] OTHER -> s

\* a validation that accepts every non-empty code
validate_language_code_lenient(language) == language # ""

validate_language_code(language) == Lower(language) \in SUPPORTED_LANGUAGES

\* what self.model.generate_content(prompt) does: it raises, or it returns a
\* response whose text is one of these (NoneStr: no text)
SdkRaise == [kind |-> "raise", text |-> NoneStr]
SdkText(t) == [kind |-> "return", text |-> t]
SdkOutcomes ==
    {SdkRaise, SdkText(NoneStr), SdkText(""), SdkText("   "),
     SdkText(" Pandu is anaemia. ")}

\* str.strip() on the texts above
Strip(t) ==
    CASE t = "   " -> ""
      [] t = " Pandu is anaemia. " -> "Pandu is anaemia."
      [] OTHER -> t

\* a collaborator that hands its error message back as the explanation
generate_mapping_explanation_leaky(o) ==
    IF o.kind = "raise" THEN "Error generating AI explanation"
    ELSE IF Truthy(o.text) THEN Strip(o.text)
    ELSE NoneStr

\* the result of generate_mapping_explanation once generate_content has
\* come back with outcome o: a str, or NoneStr for None
generate_mapping_explanation(o) ==
    IF o.kind = "raise" THEN NoneStr
    ELSE IF Truthy(o.text) THEN Strip(o.text)
    ELSE NoneStr

-----------------------------------------------------------------------------
(* Inputs: the requests POST /translate receives *)

TranslateRequest(code, system, target_system, language) ==
    [code |-> code, system |-> system, target_system |-> target_system,
     language |-> language]

RequestCodes == {"NAM-1001", "NAM-1003", "DB64.0", "", "NO-SUCH-CODE"}
SystemURIs == {NAMASTE_SYSTEM, ICD11_SYSTEM, OTHER_SYSTEM}
Languages == {NoneStr, "", "hi", "HI", "xx"}

Requests ==
    {TranslateRequest(c, s, t, l) :
        c \in RequestCodes, s \in SystemURIs, t \in SystemURIs, l \in Languages}

NoRequest == TranslateRequest(NoneStr, NoneStr, NoneStr, NoneStr)
NoSdk == [kind |-> "none", text |-> NoneStr]
NoDataset == [metadata |-> "{}", mappings |-> <<>>]
\* the query strings and limits GET /search receives
Queries == {"", "a", "an", "diabetes", "DIABETES", "Diabetes", "PANDU", "zz"}
Limits == {0, 1, 2, DefaultLimit, 100, 101}
\* the identifiers GET /ConceptMap/{concept_map_id} receives
ConceptMapIds == {"namaste-to-icd11", "icd11-to-namaste", "siddha-to-icd11"}

\* the parameters POST /analyze receives, and what generate_disease_analysis
\* hands back (a text, or NoneStr for None: it catches its own exceptions)
Conditions == {"", "a", "an", "diabetes"}
TraditionalSystems == {"Ayurveda", "Homeopathy"}
AnalyzeLanguages == {"", "hi", "xx"}
Analyses == {NoneStr, "Madhumeha is a disorder of metabolism."}

NoCall == [endpoint |-> "none"]
\* the callers of get_mapping_engine
Callers == 1..MaxCallers
NotCalled == [called |-> FALSE]
NotLoading == [status |-> "none"]
NoArgs == [result |-> FALSE, source_code |-> NoneStr, target_code |-> NoneStr,
           target_display |-> NoneStr, target_system |-> NoneStr,
           equivalence |-> "equivalent", ai_explanation |-> NoneStr]

-----------------------------------------------------------------------------
(* mapping_engine.py: the singleton *)

\* get_mapping_engine with the instance found in inst: the instance it
\* leaves behind, and whether MappingEngine() raised
\* a factory that builds a new engine at every call
get_mapping_engine_fresh(inst, exists, data) ==
    LET r == MappingEngineLoad(exists, data) IN
    IF r.raised
    THEN [raised |-> TRUE, instance |-> None, constructed |-> TRUE]
    ELSE [raised |-> FALSE, instance |-> r.self, constructed |-> TRUE]

\* constructed: whether the call ran MappingEngine()
get_mapping_engine(inst, exists, data) ==
    IF inst = None THEN
        LET r == MappingEngineLoad(exists, data) IN
        IF r.raised
        THEN [raised |-> TRUE, instance |-> None, constructed |-> TRUE]
        ELSE [raised |-> FALSE, instance |-> r.self, constructed |-> TRUE]
    ELSE [raised |-> FALSE, instance |-> inst, constructed |-> FALSE]

-----------------------------------------------------------------------------
(* main.py *)

JSONResponse(body) == [status |-> 200, body |-> body]
HTTPException(status_code, detail) ==
    [status |-> status_code, body |-> [detail |-> detail]]

\* lines 248-252
LanguageRejected(req) ==
    Truthy(req.language) /\ ~validate_language_code(req.language)

\* a handler that asks for an explanation whether or not a language came
WantsExplanationAlways(req, primary_mapping) == primary_mapping # None

\* line 267; ai_service is set whenever the service is serving
WantsExplanation(req, primary_mapping) ==
    Truthy(req.language) /\ primary_mapping # None

\* lines 289-318: the response of a successful lookup
TranslateSuccessResponse(req, primary_mapping, ai_explanation) ==
    IF primary_mapping = None THEN
        HTTPException(500, "Translation failed")
    ELSE IF req.system = NAMASTE_SYSTEM THEN
        JSONResponse(build_translate_response(
            TRUE, req.code, primary_mapping.icd11_code,
            primary_mapping.icd11_display, req.target_system,
            primary_mapping.equivalence, ai_explanation))
    ELSE
        JSONResponse(build_translate_response(
            TRUE, req.code, primary_mapping.namaste_code,
            primary_mapping.namaste_display, req.target_system,
            primary_mapping.equivalence, ai_explanation))

\* a failed lookup answered with the 404 the route documents
TranslateFailureResponse404(req) == HTTPException(404, "Code not found")

\* lines 259-263: the response of a failed lookup
TranslateFailureResponse(req) ==
    JSONResponse(build_translate_response(
        FALSE, req.code, NoneStr, NoneStr, NoneStr, "equivalent", NoneStr))

\* lines 279-287: the await and the except around it; the collaborator
\* catches every exception itself, so the except of line 286 never runs
AwaitExplanation(o) == generate_mapping_explanation(o)

Init ==
    /\ fileExists \in BOOLEAN
    /\ dataset \in Datasets \cup {NoDataset}
    /\ fileExists <=> dataset \in Datasets
    /\ engineInstance = None
    /\ phase = "starting"
    /\ request = NoRequest
    /\ pc = "idle"
    /\ primary = None
    /\ allMappings = <<>>
    /\ sdk = NoSdk
    /\ aiCalls = 0
    /\ response = None
    /\ args = NoArgs
    /\ built = None
    /\ call = NoCall
    /\ reply = None
    /\ constructions = 0
    /\ instanceId = 0
    /\ received = [c \in Callers |-> NotCalled]
    /\ loading = NotLoading

\* lifespan: startup builds the engine; an exception aborts startup
lifespan ==
    /\ phase = "starting"
    /\ LET r == get_mapping_engine(engineInstance, fileExists, dataset) IN
        /\ engineInstance' = r.instance
        /\ phase' = IF r.raised THEN "aborted" ELSE "serving"
    /\ UNCHANGED <<fileExists, dataset, request, pc, primary, allMappings,
                   sdk, aiCalls, response, args, built, call, reply,
                   constructions, instanceId, received, loading>>

\* translate_code of main.py from the arrival of req up to its return or to
\* the await of the explanation (lines 244-285)
HandleTranslate(req) ==
    /\ phase = "serving"
    /\ pc = "idle"
    /\ request' = req
    /\ sdk' = NoSdk
    /\ IF LanguageRejected(req) THEN
            /\ response' = HTTPException(400, "Unsupported language code")
            /\ pc' = "done"
            /\ primary' = None
            /\ allMappings' = <<>>
            /\ aiCalls' = 0
       ELSE LET r == translate_code(engineInstance, req.code, req.system,
                                    req.target_system) IN
            /\ primary' = r[2]
            /\ allMappings' = r[3]
            /\ IF ~r[1] THEN
                    /\ response' = TranslateFailureResponse(req)
                    /\ pc' = "done"
                    /\ aiCalls' = 0
               ELSE IF WantsExplanation(req, r[2]) THEN
                    /\ response' = None
                    /\ pc' = "awaiting"
                    /\ aiCalls' = 1
               ELSE
                    /\ response' = TranslateSuccessResponse(req, r[2], NoneStr)
                    /\ pc' = "done"
                    /\ aiCalls' = 0
    /\ UNCHANGED <<fileExists, dataset, engineInstance, phase, args, built, call, reply,
                   constructions, instanceId, received, loading>>

\* the collaborator: model.generate_content comes back with outcome o
GenerateContentReturns(o) ==
    /\ pc = "awaiting"
    /\ sdk' = o
    /\ pc' = "resumed"
    /\ UNCHANGED <<fileExists, dataset, engineInstance, phase, request,
                   primary, allMappings, aiCalls, response, args, built, call, reply,
                   constructions, instanceId, received, loading>>

\* translate_code of main.py after the await (lines 279-309)
ResumeTranslate ==
    /\ pc = "resumed"
    /\ response' = TranslateSuccessResponse(request, primary,
                                            AwaitExplanation(sdk))
    /\ pc' = "done"
    /\ UNCHANGED <<fileExists, dataset, engineInstance, phase, request,
                   primary, allMappings, sdk, aiCalls, args, built, call, reply,
                   constructions, instanceId, received, loading>>

\* a search whose total is the number of results returned
SearchResponseReturned(q, limit, results) ==
    LET limited_results ==
            SubSeq(results, 1, IF limit < Len(results) THEN limit ELSE Len(results))
    IN JSONResponse(
        [query |-> q,
         total_results |-> Len(limited_results),
         returned_results |-> Len(limited_results),
         results |-> [i \in 1..Len(limited_results) |-> to_dict(limited_results[i])]])

\* lines 427-436: results[:limit] and the response
SearchResponse(q, limit, results) ==
    LET limited_results ==
            SubSeq(results, 1, IF limit < Len(results) THEN limit ELSE Len(results))
    IN JSONResponse(
        [query |-> q,
         total_results |-> Len(results),
         returned_results |-> Len(limited_results),
         results |-> [i \in 1..Len(limited_results) |-> to_dict(limited_results[i])]])

\* the Query(...) declarations of q and limit (lines 407-418)
SearchParametersValid(q, limit) ==
    /\ Len(Chars(q)) >= MinQueryLength
    /\ limit >= LimitMin
    /\ limit <= LimitMax

\* GET /search (lines 406-443)
HandleSearch(q, limit) ==
    /\ phase = "serving"
    /\ pc = "idle"
    /\ call' = [endpoint |-> "search", q |-> q, limit |-> limit]
    /\ reply' = IF SearchParametersValid(q, limit)
                THEN SearchResponse(q, limit, search_mappings(engineInstance, q))
                ELSE HTTPException(422, "Unprocessable Entity")
    /\ pc' = "replied"
    /\ UNCHANGED <<fileExists, dataset, engineInstance, phase, request,
                   primary, allMappings, sdk, aiCalls, response, args, built,
                   constructions, instanceId, received, loading>>

\* datetime.utcnow().isoformat() + "Z"
Timestamp == "<utcnow>"

\* a statistics handler that stamps the time of the request into the
\* engine's metadata
HandleStatisticsStamping ==
    /\ phase = "serving"
    /\ pc = "idle"
    /\ call' = [endpoint |-> "statistics"]
    /\ engineInstance' = [engineInstance EXCEPT !.metadata = Timestamp]
    /\ LET stats == get_statistics(engineInstance) IN
        reply' = JSONResponse(
            [service |-> "AyushBridge", version |-> "1.0.0",
             timestamp |-> Timestamp,
             total_mappings |-> stats.total_mappings,
             by_traditional_system |-> stats.by_traditional_system,
             by_equivalence |-> stats.by_equivalence,
             reverse_mappings |-> stats.reverse_mappings,
             metadata |-> stats.metadata])
    /\ pc' = "replied"
    /\ UNCHANGED <<fileExists, dataset, phase, request,
                   primary, allMappings, sdk, aiCalls, response, args, built,
                   constructions, instanceId, received, loading>>

\* GET /statistics (lines 453-469)
HandleStatistics ==
    /\ phase = "serving"
    /\ pc = "idle"
    /\ call' = [endpoint |-> "statistics"]
    /\ LET stats == get_statistics(engineInstance) IN
        reply' = JSONResponse(
            [service |-> "AyushBridge", version |-> "1.0.0",
             timestamp |-> Timestamp,
             total_mappings |-> stats.total_mappings,
             by_traditional_system |-> stats.by_traditional_system,
             by_equivalence |-> stats.by_equivalence,
             reverse_mappings |-> stats.reverse_mappings,
             metadata |-> stats.metadata])
    /\ pc' = "replied"
    /\ UNCHANGED <<fileExists, dataset, engineInstance, phase, request,
                   primary, allMappings, sdk, aiCalls, response, args, built,
                   constructions, instanceId, received, loading>>

\* GET /ConceptMap/{concept_map_id} (lines 341-387)
HandleConceptMap(concept_map_id) ==
    /\ phase = "serving"
    /\ pc = "idle"
    /\ call' = [endpoint |-> "concept_map", concept_map_id |-> concept_map_id]
    /\ reply' =
        IF concept_map_id \notin DOMAIN PREDEFINED_CONCEPT_MAPS
        THEN HTTPException(404, "ConceptMap not found")
        ELSE
            LET config == PREDEFINED_CONCEPT_MAPS[concept_map_id]
                mappings == get_mappings_for_concept_map(engineInstance,
                                config.source_system, config.target_system)
            IN JSONResponse(
                build_concept_map(concept_map_id, config.name, config.title,
                                  config.source_system, config.target_system,
                                  mappings, config.description))
    /\ pc' = "replied"
    /\ UNCHANGED <<fileExists, dataset, engineInstance, phase, request,
                   primary, allMappings, sdk, aiCalls, response, args, built,
                   constructions, instanceId, received, loading>>

\* related_mappings[:5]
FirstFive(seq) == SubSeq(seq, 1, IF Len(seq) < 5 THEN Len(seq) ELSE 5)

\* POST /analyze (lines 501-570); analysis is what the awaited
\* generate_disease_analysis returned; include_medications only reaches the
\* prompt
HandleAnalyze(condition, traditional_system, language, analysis) ==
    /\ phase = "serving"
    /\ pc = "idle"
    /\ call' = [endpoint |-> "analyze", condition |-> condition,
                traditional_system |-> traditional_system,
                language |-> language]
    /\ reply' =
        IF traditional_system \notin {"Ayurveda", "Siddha", "Unani"}
        THEN HTTPException(400, "Traditional system must be one of: Ayurveda, Siddha, Unani")
        ELSE IF Truthy(language) /\ ~validate_language_code(language)
        THEN HTTPException(400, "Unsupported language code")
        ELSE
            LET related_mappings == search_mappings(engineInstance, condition)
                shown == FirstFive(related_mappings)
            IN JSONResponse(
                [condition |-> condition,
                 traditional_system |-> traditional_system,
                 language |-> language,
                 timestamp |-> Timestamp,
                 ai_analysis |-> analysis,
                 related_mappings |-> [i \in 1..Len(shown) |-> to_dict(shown[i])],
                 has_ai_analysis |-> analysis # NoneStr,
                 total_related_codes |-> Len(related_mappings)])
    /\ pc' = "replied"
    /\ UNCHANGED <<fileExists, dataset, engineInstance, phase, request,
                   primary, allMappings, sdk, aiCalls, response, args, built,
                   constructions, instanceId, received, loading>>

\* the response leaves and the handler's frame is gone
SendResponse ==
    /\ pc \in {"done", "replied"}
    /\ pc' = "idle"
    /\ request' = NoRequest
    /\ primary' = None
    /\ allMappings' = <<>>
    /\ sdk' = NoSdk
    /\ aiCalls' = 0
    /\ response' = None
    /\ call' = NoCall
    /\ reply' = None
    /\ UNCHANGED <<fileExists, dataset, engineInstance, phase, args, built,
                   constructions, instanceId, received, loading>>

Next ==
    \/ lifespan
    \/ SendResponse
    \/ \E req \in Requests : HandleTranslate(req)
    \/ \E o \in SdkOutcomes : GenerateContentReturns(o)
    \/ ResumeTranslate
    \/ HandleStatistics
    \/ \E q \in Queries, limit \in Limits : HandleSearch(q, limit)
    \/ \E id \in ConceptMapIds : HandleConceptMap(id)
    \/ \E c \in Conditions, t \in TraditionalSystems, l \in AnalyzeLanguages, a \in Analyses : HandleAnalyze(c, t, l, a)

Spec == Init /\ [][Next]_vars

\* The event loop runs every step of the program that is ready; nothing
\* makes the collaborator return.
FairSpec ==
    Spec /\ WF_vars(lifespan) /\ WF_vars(ResumeTranslate) /\ WF_vars(SendResponse)

-----------------------------------------------------------------------------
(* The resource builder called directly, with any arguments *)

BuilderArgs ==
    [result : BOOLEAN,
     source_code : {"NAM-1001"},
     target_code : {NoneStr, "", "DB64.0"},
     target_display : {NoneStr, "Iron deficiency anaemia"},
     target_system : {NoneStr, "", ICD11_SYSTEM},
     equivalence : {"equivalent", "wider"},
     ai_explanation : {NoneStr, "", "Pandu is anaemia."}]

InitBuilder ==
    /\ fileExists = FALSE
    /\ dataset = NoDataset
    /\ engineInstance = None
    /\ phase = "starting"
    /\ request = NoRequest
    /\ pc = "idle"
    /\ primary = None
    /\ allMappings = <<>>
    /\ sdk = NoSdk
    /\ aiCalls = 0
    /\ response = None
    /\ args = NoArgs
    /\ built = None
    /\ call = NoCall
    /\ reply = None
    /\ constructions = 0
    /\ instanceId = 0
    /\ received = [c \in Callers |-> NotCalled]
    /\ loading = NotLoading

CallBuilder(a) ==
    /\ args' = a
    /\ built' = build_translate_response(
                    a.result, a.source_code, a.target_code, a.target_display,
                    a.target_system, a.equivalence, a.ai_explanation)
    /\ UNCHANGED <<fileExists, dataset, engineInstance, phase, request, pc,
                   primary, allMappings, sdk, aiCalls, response, call,
                   reply,
                   constructions, instanceId, received, loading>>

NextBuilder == \E a \in BuilderArgs : CallBuilder(a)

SpecBuilder == InitBuilder /\ [][NextBuilder]_vars

-----------------------------------------------------------------------------
(* get_mapping_engine called by several callers. The function is        *)
(* synchronous and the program has one thread, the event loop's: a call *)
(* runs from its test of the global to its return without another call  *)
(* in between.                                                          *)

\* one call of get_mapping_engine (lines 314-319) by caller c
CallGetMappingEngine(c) ==
    /\ ~received[c].called
    /\ LET r == get_mapping_engine(engineInstance, fileExists, dataset)
           made == IF r.constructed THEN constructions + 1 ELSE constructions
           id == IF r.constructed /\ ~r.raised THEN made ELSE instanceId
       IN
        /\ constructions' = made
        /\ engineInstance' = r.instance
        /\ instanceId' = id
        /\ received' = [received EXCEPT ![c] =
                IF r.raised THEN [called |-> TRUE, raised |-> TRUE]
                ELSE [called |-> TRUE, raised |-> FALSE, id |-> id,
                      instance |-> r.instance]]
    /\ UNCHANGED <<fileExists, dataset, phase, request, pc, primary,
                   allMappings, sdk, aiCalls, response, args, built, call,
                   reply, loading>>

NextSingleton == \E c \in Callers : CallGetMappingEngine(c)

SpecSingleton == Init /\ [][NextSingleton]_vars

-----------------------------------------------------------------------------
(* Startup with the constructor of the engine taken one record at a time *)

\* lines 69-74: one record put into both indices
IndexRecord(self, mapping) ==
    LET fwd == DictSet(self.mappings, mapping.namaste_code, mapping)
        rev0 == IF ~DictHas(self.reverse_mappings, mapping.icd11_code)
                THEN DictSet(self.reverse_mappings, mapping.icd11_code, <<>>)
                ELSE self.reverse_mappings
        rev == DictSet(rev0, mapping.icd11_code,
                       Append(DictGet(rev0, mapping.icd11_code, <<>>), mapping))
    IN [self EXCEPT !.mappings = fwd, !.reverse_mappings = rev]

\* a reference that is handed out as soon as the object exists
ConstructorEntered(l) == l.status # "none"

\* MappingEngine() has returned: line 318 assigns its value
ConstructorReturned(l) == l.status = "returned"

\* lifespan calls get_mapping_engine, which finds no instance and enters
\* MappingEngine.__init__ (lines 42-48) and _load_mappings up to its loop
BeginConstruction ==
    /\ phase = "starting"
    /\ engineInstance = None
    /\ loading = NotLoading
    /\ constructions' = constructions + 1
    /\ loading' =
        IF ~fileExists
        THEN [status |-> "returned", self |-> NewEngine, next |-> 1]
        ELSE [status |-> "loading",
              self |-> [NewEngine EXCEPT !.metadata = dataset.metadata],
              next |-> 1]
    /\ UNCHANGED <<fileExists, dataset, engineInstance, phase, request, pc,
                   primary, allMappings, sdk, aiCalls, response, args, built,
                   call, reply, instanceId, received>>

\* one iteration of the loop of _load_mappings (lines 67-74), or its end
LoadRecord ==
    /\ loading.status = "loading"
    /\ loading' =
        IF loading.next > Len(dataset.mappings)
        THEN [loading EXCEPT !.status = "returned"]
        ELSE IF CodeMappingRaises(dataset.mappings[loading.next])
        THEN [loading EXCEPT !.status = "raised"]
        ELSE [loading EXCEPT
                !.self = IndexRecord(@, CodeMapping(dataset.mappings[loading.next])),
                !.next = @ + 1]
    /\ UNCHANGED <<fileExists, dataset, engineInstance, phase, request, pc,
                   primary, allMappings, sdk, aiCalls, response, args, built,
                   call, reply, constructions, instanceId, received>>

\* get_mapping_engine assigns the global and returns; lifespan yields
PublishInstance ==
    /\ phase = "starting"
    /\ engineInstance = None
    /\ ConstructorReturned(loading)
    /\ engineInstance' = loading.self
    /\ instanceId' = constructions
    /\ phase' = "serving"
    /\ UNCHANGED <<fileExists, dataset, request, pc, primary, allMappings,
                   sdk, aiCalls, response, args, built, call, reply,
                   constructions, received, loading>>

\* the exception leaves _load_mappings, __init__, get_mapping_engine and
\* lifespan
AbortStartup ==
    /\ phase = "starting"
    /\ loading.status = "raised"
    /\ phase' = "aborted"
    /\ UNCHANGED <<fileExists, dataset, engineInstance, request, pc, primary,
                   allMappings, sdk, aiCalls, response, args, built, call,
                   reply, constructions, instanceId, received, loading>>

NextLoading ==
    \/ BeginConstruction
    \/ LoadRecord
    \/ PublishInstance
    \/ AbortStartup
    \/ HandleStatistics
    \/ \E id \in ConceptMapIds : HandleConceptMap(id)
    \/ SendResponse

SpecLoading == Init /\ [][NextLoading]_vars

-----------------------------------------------------------------------------
(* Vocabulary of the properties *)

Serving == phase = "serving"

\* the records of the loaded dataset, in load order
Loaded == [i \in 1..Len(dataset.mappings) |-> CodeMapping(dataset.mappings[i])]

LoadedWithTarget(c) == SelectSeq(Loaded, LAMBDA r : r.icd11_code = c)

\* record i is the last one loaded with its namaste_code
LastWithCode(i) ==
    \A j \in (i + 1)..Len(Loaded) :
        Loaded[j].namaste_code # Loaded[i].namaste_code

Forward(req) == req.system = NAMASTE_SYSTEM /\ req.target_system = ICD11_SYSTEM
Reverse(req) == req.system = ICD11_SYSTEM /\ req.target_system = NAMASTE_SYSTEM

HasParameter(body, n) ==
    \E i \in 1..Len(body.parameter) : body.parameter[i].name = n

ParameterNamed(body, n) ==
    body.parameter[CHOOSE i \in 1..Len(body.parameter) :
                        body.parameter[i].name = n]

Answered == pc = "done"
AnsweredOk == pc = "done" /\ response.status = 200
ResultFlag == ParameterNamed(response.body, "result").valueBoolean

\* translate(R.sourceCode, NAMASTE, ICD-11) succeeds with R's target
ForwardReturns(R) ==
    LET t == translate_code(engineInstance, R.namaste_code,
                            NAMASTE_SYSTEM, ICD11_SYSTEM) IN
    /\ t[1]
    /\ t[2] # None
    /\ t[2].icd11_code = R.icd11_code
    /\ t[2].icd11_display = R.icd11_display
    /\ t[2].equivalence = R.equivalence

-----------------------------------------------------------------------------
\* C1 (as stated): for every record R of a loaded dataset, also one whose
\* sourceCode other records share, the forward translation of R.sourceCode
\* succeeds and returns R's targetCode, targetDisplay and equivalence.
C1_EveryRecordTranslates ==
    Serving => \A i \in 1..Len(Loaded) : ForwardReturns(Loaded[i])

\* C1 (amended): for every record R of a loaded dataset that is the last
\* record loaded with its sourceCode, the forward translation of R.sourceCode
\* succeeds and returns R's targetCode, targetDisplay and equivalence.
C1_LastRecordTranslates ==
    Serving =>
        \A i \in 1..Len(Loaded) : LastWithCode(i) => ForwardReturns(Loaded[i])

\* a forward request answered from a dataset of two records that share a
\* sourceCode and differ in their target: the second record is the result
C1_Witness ==
    /\ Answered /\ Forward(request)
    /\ Len(Loaded) = 2
    /\ Loaded[1].namaste_code = Loaded[2].namaste_code
    /\ Loaded[1].icd11_code # Loaded[2].icd11_code
    /\ request.code = Loaded[2].namaste_code
    /\ primary = Loaded[2]

\* C2: for every record R of a loaded dataset the reverse translation of
\* R.targetCode succeeds and its list holds an entry with R's sourceCode.
C2_RoundTripContainment ==
    Serving =>
        \A i \in 1..Len(Loaded) :
            LET t == translate_code(engineInstance, Loaded[i].icd11_code,
                                    ICD11_SYSTEM, NAMASTE_SYSTEM) IN
            /\ t[1]
            /\ \E k \in 1..Len(t[3]) :
                    t[3][k].namaste_code = Loaded[i].namaste_code

\* a reverse request answered with two records of different sourceCode
C2_Witness ==
    /\ Answered /\ Reverse(request)
    /\ Len(allMappings) = 2
    /\ allMappings[1].namaste_code # allMappings[2].namaste_code

\* C3: the reverse translation returns all records with that target code in
\* load order, its primary is the first of them, and a match rendered into
\* the operation-result is that first record's.
C3_ReversePrimaryIsFirstLoaded ==
    Serving =>
        /\ \A c \in RequestCodes \cup {Loaded[i].icd11_code : i \in 1..Len(Loaded)} :
                LET t == translate_code(engineInstance, c,
                                        ICD11_SYSTEM, NAMASTE_SYSTEM) IN
                /\ t[3] = LoadedWithTarget(c)
                /\ t[1] = (LoadedWithTarget(c) # <<>>)
                /\ t[2] = IF LoadedWithTarget(c) # <<>>
                          THEN LoadedWithTarget(c)[1] ELSE None
        /\ (AnsweredOk /\ Reverse(request) /\ ResultFlag) =>
                /\ allMappings = LoadedWithTarget(request.code)
                /\ primary = allMappings[1]
                /\ HasParameter(response.body, "match") =>
                    LET part == ParameterNamed(response.body, "match").part IN
                    /\ part[1].valueCode = allMappings[1].equivalence
                    /\ part[2].valueCoding =
                            Coding(NAMASTE_SYSTEM, allMappings[1].namaste_code,
                                   allMappings[1].namaste_display)

\* a reverse request answered with a match, out of two records loaded with
\* that target code that differ in their sourceCode
C3_Witness ==
    /\ AnsweredOk /\ Reverse(request) /\ ResultFlag
    /\ Len(allMappings) = 2
    /\ allMappings[1].namaste_code # allMappings[2].namaste_code
    /\ HasParameter(response.body, "match")

-----------------------------------------------------------------------------
\* the request names a supported direction and no loaded record has its code
\* on the source side of that direction
CodeAbsent(req) ==
    \/ Forward(req) /\ \A i \in 1..Len(Loaded) : Loaded[i].namaste_code # req.code
    \/ Reverse(req) /\ \A i \in 1..Len(Loaded) : Loaded[i].icd11_code # req.code

NotFound == <<FALSE, None, <<>>>>
OnlyFalseFlag == <<Parameter("result", FALSE, NoneStr, None)>>

UnsupportedLanguage(req) ==
    req.language # NoneStr /\ Lower(req.language) \notin SUPPORTED_LANGUAGES

UnsupportedPair(s, t) ==
    /\ ~(s = NAMASTE_SYSTEM /\ t = ICD11_SYSTEM)
    /\ ~(s = ICD11_SYSTEM /\ t = NAMASTE_SYSTEM)

\* C5: for every system pair other than the two canonical ones translate
\* returns not-found with no primary and no mappings, whether or not the
\* code is in an index, and the request is not failed by an exception.
C5_UnsupportedDirectionIsNotFound ==
    Serving =>
        /\ \A s \in SystemURIs, t \in SystemURIs :
             \A c \in RequestCodes
                      \cup {Loaded[i].namaste_code : i \in 1..Len(Loaded)}
                      \cup {Loaded[i].icd11_code : i \in 1..Len(Loaded)} :
                UnsupportedPair(s, t) =>
                    translate_code(engineInstance, c, s, t) = NotFound
        /\ (Answered /\ UnsupportedPair(request.system, request.target_system)) =>
                /\ primary = None /\ allMappings = <<>>
                /\ aiCalls = 0
                /\ response.status # 500
                /\ response.status = 200 => response.body.parameter = OnlyFalseFlag

\* a request from NAMASTE to NAMASTE for a code the forward index holds
C5_Witness ==
    /\ Answered
    /\ request.system = NAMASTE_SYSTEM /\ request.target_system = NAMASTE_SYSTEM
    /\ DictHas(engineInstance.mappings, request.code)
    /\ response.status = 200

\* C6: an operation-result whose flag is true carries a match part with the
\* equivalence and the target coding (system, code, display) of the record.
C6_SuccessCarriesMatch ==
    (AnsweredOk /\ ResultFlag) =>
        /\ HasParameter(response.body, "match")
        /\ LET part == ParameterNamed(response.body, "match").part IN
            /\ part[1].name = "equivalence"
            /\ part[1].valueCode = primary.equivalence
            /\ part[2].name = "concept"
            /\ part[2].valueCoding.system = request.target_system

\* C7: an operation-result whose flag is false carries that flag alone,
\* whatever arguments the builder is given.
C7_FailureCarriesOnlyFlag ==
    (built # None /\ ~args.result) => built.parameter = OnlyFalseFlag

\* the collaborator raised or came back without a usable text
CollaboratorFailed ==
    aiCalls = 1 /\ (sdk.kind = "raise" \/ sdk.text \in {NoneStr, "", "   "})

\* what the handler answers to req sent without a language
AnswerWithoutLanguage(req) ==
    LET t == translate_code(engineInstance, req.code, req.system,
                            req.target_system) IN
    IF t[1] THEN TranslateSuccessResponse(req, t[2], NoneStr)
    ELSE TranslateFailureResponse(req)

\* C8: when the explanation collaborator fails, the response is the one the
\* same request gets without a language and carries no explanation.
C8_CollaboratorFailureDegrades ==
    (Answered /\ CollaboratorFailed) =>
        /\ response.status = 200
        /\ ResultFlag
        /\ ~HasParameter(response.body, "ai_explanation")
        /\ response = AnswerWithoutLanguage(request)

\* a request with a language answered with a match after the collaborator
\* raised
C8_Witness ==
    /\ Answered /\ aiCalls = 1 /\ sdk.kind = "raise"
    /\ Truthy(request.language)
    /\ HasParameter(response.body, "match")

\* C9: a request whose lookup succeeded and that waits for the collaborator
\* is eventually answered, even if the collaborator never returns.
C9_AnsweredDespiteSilentCollaborator == (pc = "awaiting") ~> (pc = "done")

-----------------------------------------------------------------------------
RECURSIVE SumCounts(_, _)
SumCounts(counts, i) ==
    IF i > Len(counts) THEN 0 ELSE counts[i].v + SumCounts(counts, i + 1)

Replied(endpoint) == pc = "replied" /\ call.endpoint = endpoint
RepliedOk(endpoint) == Replied(endpoint) /\ reply.status = 200

\* C11: for any loaded dataset the by_traditional_system counts and the
\* by_equivalence counts of the statistics each sum up to total_mappings.
C11_StatisticsCountsSumToTotal ==
    /\ Serving =>
        LET stats == get_statistics(engineInstance) IN
        /\ SumCounts(stats.by_traditional_system, 1) = stats.total_mappings
        /\ SumCounts(stats.by_equivalence, 1) = stats.total_mappings
    /\ RepliedOk("statistics") =>
        /\ SumCounts(reply.body.by_traditional_system, 1) = reply.body.total_mappings
        /\ SumCounts(reply.body.by_equivalence, 1) = reply.body.total_mappings

\* statistics answered for an index of two records that differ in their
\* system tag and in their equivalence
C11_Witness ==
    /\ RepliedOk("statistics")
    /\ reply.body.total_mappings = 2
    /\ Len(reply.body.by_traditional_system) = 2
    /\ Len(reply.body.by_equivalence) = 2

-----------------------------------------------------------------------------
\* needle is hay[i..j] for some i and j
IsSubstring(needle, hay) ==
    \E i \in 1..(Len(hay) - Len(needle) + 1) :
        SubSeq(hay, i, i + Len(needle) - 1) = needle

SearchedFields == {"namaste_display", "icd11_display", "notes"}

\* some searched field of record v has a value whose lower-cased text holds
\* the lower-cased query q
HoldsQuery(v, q) ==
    \E f \in SearchedFields :
        /\ v[f] # NoneStr
        /\ IsSubstring(StrLower(Chars(q)), StrLower(Chars(v[f])))

\* the same, for a field that is not empty
HoldsQueryNonEmpty(v, q) ==
    \E f \in SearchedFields :
        /\ v[f] # NoneStr /\ v[f] # ""
        /\ IsSubstring(StrLower(Chars(q)), StrLower(Chars(v[f])))

Indexed == {engineInstance.mappings[i].v : i \in 1..Len(engineInstance.mappings)}
Range(seq) == {seq[i] : i \in 1..Len(seq)}

\* a request that made the engine search: GET /search with valid
\* parameters, or POST /analyze, which searches for its condition whatever
\* its length
Searched == RepliedOk("search") \/ RepliedOk("analyze")
SearchedQuery == IF call.endpoint = "search" THEN call.q ELSE call.condition
SearchedTotal ==
    IF call.endpoint = "search" THEN reply.body.total_results
    ELSE reply.body.total_related_codes

\* C12: the results of a search for q are the results of the search for any
\* query that is equal to q after lower-casing, on the same loaded dataset.
C12_SearchIgnoresQueryCase ==
    Searched =>
        \A q2 \in Queries :
            StrLower(Chars(q2)) = StrLower(Chars(SearchedQuery)) =>
                /\ search_mappings(engineInstance, q2)
                        = search_mappings(engineInstance, SearchedQuery)
                /\ Len(search_mappings(engineInstance, q2)) = SearchedTotal

\* DIABETES searched and found
C12_Witness ==
    /\ RepliedOk("search")
    /\ call.q = "DIABETES"
    /\ reply.body.total_results >= 1
    /\ search_mappings(engineInstance, "diabetes") # <<>>

\* C13 (as stated): for every query searched, the empty one and
\* one-character ones too, search returns exactly the indexed records one of
\* whose fields sourceDisplay, targetDisplay, notes holds the lower-cased
\* query as a substring of its lower-cased value.
C13_SearchIsContainment ==
    Searched =>
        LET results == search_mappings(engineInstance, SearchedQuery) IN
        /\ Range(results) = {v \in Indexed : HoldsQuery(v, SearchedQuery)}
        /\ Len(results) = Cardinality(Range(results))
        /\ Len(results) = SearchedTotal

\* C13 (amended): for every query searched, the empty one and one-character
\* ones too, search returns exactly the indexed records one of whose
\* non-empty fields sourceDisplay, targetDisplay, notes holds the lower-cased
\* query as a substring of its lower-cased value; a field that is absent or
\* the empty string matches no query, not even the empty one.
C13_SearchIsContainmentInNonEmptyField ==
    Searched =>
        LET results == search_mappings(engineInstance, SearchedQuery) IN
        /\ Range(results) = {v \in Indexed : HoldsQueryNonEmpty(v, SearchedQuery)}
        /\ Len(results) = Cardinality(Range(results))
        /\ Len(results) = SearchedTotal

\* the empty query searched on an index of two records, one of which it
\* leaves out
C13_Witness ==
    /\ RepliedOk("analyze")
    /\ call.condition = ""
    /\ Len(engineInstance.mappings) = 2
    /\ reply.body.total_related_codes = 1

ReverseSeq(seq) == [i \in 1..Len(seq) |-> seq[Len(seq) + 1 - i]]

DistinctSourceCodes ==
    \A i \in 1..Len(Loaded), j \in 1..Len(Loaded) :
        i # j => Loaded[i].namaste_code # Loaded[j].namaste_code

\* C14: search results come in a canonical order, so the same records in
\* another file order give the same result sequence for every query.
C14_SearchOrderIgnoresFileOrder ==
    (Serving /\ fileExists /\ DistinctSourceCodes) =>
        LET other == MappingEngineLoad(TRUE,
                        [dataset EXCEPT !.mappings = ReverseSeq(@)]).self
        IN \A q \in Queries :
            search_mappings(engineInstance, q) = search_mappings(other, q)

Min(a, b) == IF a < b THEN a ELSE b

\* C15: a search request with a query of at least MinQueryLength characters
\* and a limit L in LimitMin..LimitMax is answered with total_results = the
\* number of indexed records matching q, returned_results = min(L,
\* total_results) = the length of results, and results = the first
\* returned_results elements of the full match sequence, in its order.
C15_SearchResponseCounts ==
    (Replied("search") /\ SearchParametersValid(call.q, call.limit)) =>
        LET full == search_mappings(engineInstance, call.q) IN
        /\ reply.status = 200
        /\ reply.body.query = call.q
        /\ reply.body.total_results
                = Cardinality({v \in Indexed : HoldsQueryNonEmpty(v, call.q)})
        /\ reply.body.returned_results
                = Min(call.limit, reply.body.total_results)
        /\ reply.body.returned_results = Len(reply.body.results)
        /\ \A i \in 1..Len(reply.body.results) :
                reply.body.results[i] = to_dict(full[i])

\* a search with limit 1 that matches two records and returns one
C15_Witness ==
    /\ RepliedOk("search")
    /\ call.limit = 1
    /\ reply.body.total_results = 2
    /\ reply.body.returned_results = 1

-----------------------------------------------------------------------------
ConceptMapReplied(id) ==
    RepliedOk("concept_map") /\ call.concept_map_id = id

Elements == reply.body.group[1].element

TargetCodes == {Loaded[i].icd11_code : i \in 1..Len(Loaded)}

\* C16: the reverse concept map has exactly one element per distinct target
\* code of the loaded records; the element's targets are the (source code,
\* display, equivalence) of the records loaded with that target code, one
\* per record in load order, and its display is the targetDisplay of the
\* first of them.
C16_ReverseGroupsByTargetCode ==
    ConceptMapReplied("icd11-to-namaste") =>
        /\ Len(reply.body.group) = 1
        /\ {Elements[i].code : i \in 1..Len(Elements)} = TargetCodes
        /\ Len(Elements) = Cardinality(TargetCodes)
        /\ \A i \in 1..Len(Elements) :
            LET records == LoadedWithTarget(Elements[i].code) IN
            /\ Elements[i].display = records[1].icd11_display
            /\ Len(Elements[i].target) = Len(records)
            /\ \A j \in 1..Len(records) :
                /\ Elements[i].target[j].code = records[j].namaste_code
                /\ Elements[i].target[j].display = records[j].namaste_display
                /\ Elements[i].target[j].equivalence = records[j].equivalence

\* two distinct source codes with one target code and different target
\* displays: one element, two targets
C16_Witness ==
    /\ ConceptMapReplied("icd11-to-namaste")
    /\ Len(Loaded) = 2
    /\ Loaded[1].icd11_display # Loaded[2].icd11_display
    /\ Len(Elements) = 1
    /\ Len(Elements[1].target) = 2
    /\ Elements[1].target[1].code # Elements[1].target[2].code

\* C17: the forward concept map has exactly one element per entry of the
\* forward index, in the index's order, each with exactly one target whose
\* code, display and equivalence are those of the record the index holds
\* for the element's source code.
C17_ForwardOneTargetPerEntry ==
    ConceptMapReplied("namaste-to-icd11") =>
        /\ Len(reply.body.group) = 1
        /\ Len(Elements) = Len(engineInstance.mappings)
        /\ \A i \in 1..Len(Elements) :
            LET entry == engineInstance.mappings[i] IN
            /\ Elements[i].code = entry.k
            /\ Len(Elements[i].target) = 1
            /\ Elements[i].target[1].code = entry.v.icd11_code
            /\ Elements[i].target[1].display = entry.v.icd11_display
            /\ Elements[i].target[1].equivalence = entry.v.equivalence

\* a forward map of two entries, the second not "equivalent"
C17_Witness ==
    /\ ConceptMapReplied("namaste-to-icd11")
    /\ Len(Elements) = 2
    /\ Elements[2].target[1].equivalence # "equivalent"

\* C18 (as stated): the operation-result resource and the concept-grouping
\* resource both carry a fixed resource type and a canonical URL derived
\* from the supplied identifier.
C18_BothShapesCarryTypeAndUrl ==
    /\ AnsweredOk =>
        /\ response.body.resourceType = "Parameters"
        /\ "url" \in DOMAIN response.body
    /\ RepliedOk("concept_map") =>
        /\ reply.body.resourceType = "ConceptMap"
        /\ reply.body.url
            = "http://ayushbridge.org/fhir/ConceptMap/" \o call.concept_map_id

\* C18 (amended): both resources carry a fixed resource type, "Parameters"
\* and "ConceptMap"; the concept-grouping resource carries the supplied
\* identifier and the canonical URL made of the base and that identifier;
\* the operation-result resource holds its parameters only, no identifier
\* and no URL.
C18_TypeOnBothUrlOnConceptMap ==
    /\ AnsweredOk =>
        /\ response.body.resourceType = "Parameters"
        /\ DOMAIN response.body = {"resourceType", "parameter"}
    /\ RepliedOk("concept_map") =>
        /\ reply.body.resourceType = "ConceptMap"
        /\ reply.body.id = call.concept_map_id
        /\ reply.body.url
            = "http://ayushbridge.org/fhir/ConceptMap/" \o call.concept_map_id

\* a successful translation answered with a resource without a URL
C18_Witness ==
    /\ AnsweredOk
    /\ ResultFlag
    /\ response.body.resourceType = "Parameters"
    /\ "url" \notin DOMAIN response.body

ClosedEquivalenceSet ==
    {"relatedto", "equivalent", "equal", "wider", "subsumes", "narrower",
     "specializes", "inexact", "unmatched", "disjoint"}

LacksRequiredField(record) ==
    \E f \in {"namaste_code", "namaste_display", "namaste_system",
              "icd11_code", "icd11_display", "equivalence"} :
        record[f] = Missing

Malformed(record) ==
    LacksRequiredField(record) \/ record.equivalence \notin ClosedEquivalenceSet

Started == phase # "starting"

\* C19: once startup has run on a file one of whose records lacks a required
\* field or has an equivalence outside the closed set, startup is aborted and
\* no engine instance is published.
C19_MalformedRecordAbortsStartup ==
    (Started /\ fileExists
        /\ \E i \in 1..Len(dataset.mappings) : Malformed(dataset.mappings[i]))
    => (phase = "aborted" /\ engineInstance = None)

\* aborted on a file whose first record is well-formed and whose second is not
C19_Witness ==
    /\ phase = "aborted"
    /\ engineInstance = None
    /\ Len(dataset.mappings) = 2
    /\ ~Malformed(dataset.mappings[1])
    /\ Malformed(dataset.mappings[2])

RecognizedSystems == {"Ayurveda", "Siddha", "Unani"}

\* C20: once startup has run on a file one of whose records has a system tag
\* outside Ayurveda, Siddha, Unani, startup is aborted; no record with such a
\* tag is in a loaded index.
C20_UnrecognizedSystemFailsLoad ==
    /\ (Started /\ fileExists
            /\ \E i \in 1..Len(dataset.mappings) :
                dataset.mappings[i].namaste_system \notin RecognizedSystems)
        => phase = "aborted"
    /\ Serving =>
        \A i \in 1..Len(engineInstance.mappings) :
            engineInstance.mappings[i].v.namaste_system \in RecognizedSystems

-----------------------------------------------------------------------------
LoadError ==
    \/ ~fileExists
    \/ \E i \in 1..Len(dataset.mappings) : Malformed(dataset.mappings[i])

\* C21: once startup has run on a mappings file that is absent or holds a
\* malformed record, startup is aborted: the service does not serve.
C21_LoadErrorAbortsStartup ==
    (Started /\ LoadError) => phase = "aborted"

\* C22: once loading has completed, no step of any request handler
\* (translate, search, statistics, concept map, analyze) changes the engine:
\* its forward index, its reverse index and its metadata stay as loaded.
C22_RequestsLeaveIndexUnchanged ==
    [][Serving => /\ engineInstance' = engineInstance
                  /\ dataset' = dataset
                  /\ phase' = phase]_vars

\* an analysis answered with related mappings, over the engine as loaded
C22_Witness ==
    /\ RepliedOk("analyze")
    /\ reply.body.total_related_codes >= 1
    /\ engineInstance.mappings # <<>>
    /\ engineInstance = MappingEngineLoad(fileExists, dataset).self

-----------------------------------------------------------------------------
\* the position of the last record of the file with source code c
LastLoaded(c) ==
    {i \in 1..Len(Loaded) : Loaded[i].namaste_code = c /\ LastWithCode(i)}

\* what the dataset alone says a translate request resolves to
ExpectedList(req) ==
    IF Forward(req) THEN
        IF LastLoaded(req.code) = {} THEN <<>>
        ELSE <<Loaded[CHOOSE i \in LastLoaded(req.code) : TRUE]>>
    ELSE IF Reverse(req) THEN LoadedWithTarget(req.code)
    ELSE <<>>

Resolved ==
    /\ pc \in {"awaiting", "resumed", "done"}
    /\ ~(pc = "done" /\ response.status = 400)

\* C23: whatever requests were handled before, the (success, primary, list)
\* a translate request obtains is a function of the loaded dataset and of
\* the request's code and system URIs only.
C23_ResolutionDependsOnDatasetAndRequestOnly ==
    (Serving /\ Resolved) =>
        LET expected == ExpectedList(request) IN
        /\ allMappings = expected
        /\ primary = IF expected = <<>> THEN None ELSE expected[1]
        /\ pc = "done" => (ResultFlag <=> expected # <<>>)

\* a reverse translation answered with two mappings
C23_Witness ==
    /\ AnsweredOk
    /\ Reverse(request)
    /\ Len(allMappings) = 2
    /\ allMappings[1] # allMappings[2]
    /\ ResultFlag

-----------------------------------------------------------------------------
Got(c) == received[c].called /\ ~received[c].raised

HoldsEveryRecord(e) ==
    \A i \in 1..Len(Loaded) :
        /\ DictHas(e.mappings, Loaded[i].namaste_code)
        /\ DictHas(e.reverse_mappings, Loaded[i].icd11_code)
        /\ \E j \in 1..Len(DictGet(e.reverse_mappings, Loaded[i].icd11_code, <<>>)) :
            DictGet(e.reverse_mappings, Loaded[i].icd11_code, <<>>)[j] = Loaded[i]

\* C30: the shared reference is set only once the constructor has returned,
\* and then to an engine holding every record of the file in both indices;
\* a load that raised leaves it unset; a request is answered only then.
C30_ReferenceSetAfterCompleteLoad ==
    /\ engineInstance # None =>
        /\ loading.status = "returned"
        /\ \A i \in 1..Len(dataset.mappings) : ~Malformed(dataset.mappings[i])
        /\ HoldsEveryRecord(engineInstance)
        /\ engineInstance = MappingEngineLoad(fileExists, dataset).self
    /\ loading.status = "raised" => engineInstance = None
    /\ pc = "replied" => engineInstance # None

\* statistics answered from an engine loaded record by record from two records
C30_Witness ==
    /\ Replied("statistics")
    /\ loading.status = "returned"
    /\ loading.next = 3
    /\ Len(engineInstance.mappings) = 2
    /\ reply.body.total_mappings = 2

-----------------------------------------------------------------------------
SourceCodes == {Loaded[i].namaste_code : i \in 1..Len(Loaded)}

EntriesFor(c) ==
    {k \in 1..Len(engineInstance.mappings) : engineInstance.mappings[k].k = c}

\* C25: after a load, the forward index has exactly one entry per source
\* code of the file, holding the last record of the file with that code, and
\* the reverse list of each target code holds every record of the file with
\* that target code, overwritten ones too, in file order.
C25_LastWriteWinsReverseAppends ==
    (Serving /\ fileExists) =>
        /\ Len(engineInstance.mappings) = Cardinality(SourceCodes)
        /\ \A i \in 1..Len(Loaded) :
            /\ Cardinality(EntriesFor(Loaded[i].namaste_code)) = 1
            /\ LastWithCode(i) =>
                DictGet(engineInstance.mappings, Loaded[i].namaste_code, None)
                    = Loaded[i]
        /\ Len(engineInstance.reverse_mappings) = Cardinality(TargetCodes)
        /\ \A c \in TargetCodes :
            DictGet(engineInstance.reverse_mappings, c, <<>>)
                = LoadedWithTarget(c)

\* two records with one source code and different target codes: one forward
\* entry holding the second, and the first still in its reverse list
C25_Witness ==
    /\ Serving
    /\ Len(Loaded) = 2
    /\ Loaded[1].namaste_code = Loaded[2].namaste_code
    /\ Loaded[1].icd11_code # Loaded[2].icd11_code
    /\ Len(engineInstance.mappings) = 1
    /\ engineInstance.mappings[1].v = Loaded[2]
    /\ Len(engineInstance.reverse_mappings) = 2
    /\ engineInstance.reverse_mappings[1].v = <<Loaded[1]>>

-----------------------------------------------------------------------------
ReverseKeys ==
    {engineInstance.reverse_mappings[k].k :
        k \in 1..Len(engineInstance.reverse_mappings)}

\* C26: the statistics answer reports as total_mappings the number of
\* entries of the forward index, as reverse_mappings the number of distinct
\* keys of the reverse index, and as metadata the metadata of the file as it
\* was read.
C26_StatisticsTotalsAndMetadata ==
    RepliedOk("statistics") =>
        /\ reply.body.total_mappings = Len(engineInstance.mappings)
        /\ reply.body.total_mappings = Cardinality(SourceCodes)
        /\ reply.body.reverse_mappings = Cardinality(ReverseKeys)
        /\ reply.body.reverse_mappings = Cardinality(TargetCodes)
        /\ fileExists => reply.body.metadata = dataset.metadata

\* statistics of a file of two records that share their target code
C26_Witness ==
    /\ RepliedOk("statistics")
    /\ fileExists
    /\ reply.body.total_mappings = 2
    /\ reply.body.reverse_mappings = 1
    /\ reply.body.metadata = "version 1.0"

-----------------------------------------------------------------------------
\* the records of the reverse lists, each with its list and position
ReverseSlots ==
    UNION {{<<k, j>> : j \in 1..Len(engineInstance.reverse_mappings[k].v)} :
                k \in 1..Len(engineInstance.reverse_mappings)}

ReverseRecord(slot) == engineInstance.reverse_mappings[slot[1]].v[slot[2]]

ForwardRecords ==
    {engineInstance.mappings[k].v : k \in 1..Len(engineInstance.mappings)}

\* C27 (as stated): after a load every record of every reverse list is the
\* record the forward index holds for its source code, the reverse lists
\* together have as many records as the forward index has entries, and the
\* reverse index has no more keys than the forward index has entries.
C27_IndicesHoldTheSameRecords ==
    Serving =>
        /\ \A slot \in ReverseSlots :
            DictGet(engineInstance.mappings, ReverseRecord(slot).namaste_code, None)
                = ReverseRecord(slot)
        /\ Cardinality(ReverseSlots) = Len(engineInstance.mappings)
        /\ Len(engineInstance.reverse_mappings) <= Len(engineInstance.mappings)

\* C27 (amended): after a load every record the forward index holds is in
\* the reverse list of its target code; every record of a reverse list has a
\* forward entry for its source code, and that entry holds the record itself
\* unless a later record of the file has the same source code; the reverse
\* lists together have as many records as the file, which is at least the
\* number of forward entries and at least the number of reverse keys; when
\* the source codes of the file are distinct, the statement as made holds.
C27_ForwardRecordsAreInReverseLists ==
    (Serving /\ fileExists) =>
        /\ \A r \in ForwardRecords :
            \E slot \in ReverseSlots :
                /\ ReverseRecord(slot) = r
                /\ engineInstance.reverse_mappings[slot[1]].k = r.icd11_code
        /\ \A slot \in ReverseSlots :
            LET r == ReverseRecord(slot) IN
            /\ DictHas(engineInstance.mappings, r.namaste_code)
            /\ \/ DictGet(engineInstance.mappings, r.namaste_code, None) = r
               \/ \E i \in 1..Len(Loaded) :
                    /\ Loaded[i] = r
                    /\ ~LastWithCode(i)
        /\ Cardinality(ReverseSlots) = Len(Loaded)
        /\ Len(engineInstance.mappings) <= Len(Loaded)
        /\ Len(engineInstance.reverse_mappings) <= Len(Loaded)
        /\ DistinctSourceCodes =>
            /\ \A slot \in ReverseSlots :
                DictGet(engineInstance.mappings,
                        ReverseRecord(slot).namaste_code, None)
                    = ReverseRecord(slot)
            /\ Cardinality(ReverseSlots) = Len(engineInstance.mappings)
            /\ Len(engineInstance.reverse_mappings)
                    <= Len(engineInstance.mappings)

\* a file whose two records share their source code: two reverse keys, two
\* reverse records, one forward entry
C27_Witness ==
    /\ Serving
    /\ fileExists
    /\ ~DistinctSourceCodes
    /\ Cardinality(ReverseSlots) = 2
    /\ Len(engineInstance.reverse_mappings) = 2
    /\ Len(engineInstance.mappings) = 1

-----------------------------------------------------------------------------
\* the codes a caller may ask for: those of the requests and of the file
AskedCodes == RequestCodes \cup SourceCodes \cup TargetCodes

\* C28: for every code and every pair of system URIs, the result (success,
\* primary, list) of translate_code has success true exactly when the
\* primary is present and exactly when the list is non-empty; a present
\* primary is the first element of the list; a forward list has at most one
\* element.
C28_TranslateResultCoherent ==
    Serving =>
        \A code \in AskedCodes, s \in SystemURIs, t \in SystemURIs :
            LET r == translate_code(engineInstance, code, s, t) IN
            /\ r[1] \in BOOLEAN
            /\ r[1] <=> r[2] # None
            /\ r[2] # None <=> r[3] # <<>>
            /\ r[2] # None => r[2] = r[3][1]
            /\ (s = NAMASTE_SYSTEM /\ t = ICD11_SYSTEM) => Len(r[3]) <= 1

\* the handler holds a primary that is the first of two different mappings
C28_Witness ==
    /\ Serving
    /\ pc = "done"
    /\ Len(allMappings) = 2
    /\ allMappings[1] # allMappings[2]
    /\ primary = allMappings[1]
    /\ translate_code(engineInstance, request.code, request.system,
                      request.target_system)[1]

-----------------------------------------------------------------------------
BlankTexts == {NoneStr, "", "   "}

\* C29: a translate request invokes the explanation collaborator at most
\* once, and only when its lookup succeeded and its language is non-empty
\* and supported; the answer has an explanation parameter only when the
\* collaborator was invoked for the request and came back with text that
\* is not blank.
C29_CollaboratorOnlyForSupportedLanguageAfterSuccess ==
    /\ aiCalls \in {0, 1}
    /\ aiCalls = 1 =>
        /\ pc \in {"awaiting", "resumed", "done"}
        /\ primary # None
        /\ ExpectedList(request) # <<>>
        /\ request.language \notin {NoneStr, ""}
        /\ Lower(request.language) \in SUPPORTED_LANGUAGES
    /\ (AnsweredOk /\ HasParameter(response.body, "ai_explanation")) =>
        /\ aiCalls = 1
        /\ sdk.kind = "return"
        /\ sdk.text \notin BlankTexts
        /\ ParameterNamed(response.body, "ai_explanation").valueString
                \notin {NoneStr, ""}

\* an answer that carries the collaborator's text
C29_Witness ==
    /\ AnsweredOk
    /\ aiCalls = 1
    /\ HasParameter(response.body, "ai_explanation")
    /\ ParameterNamed(response.body, "ai_explanation").valueString
            = "Pandu is anaemia."

====
